---- MODULE Spec2Model ----
(***************************************************************************)
(* Break-even / cost-volume-profit calculator.                             *)
(*                                                                         *)
(* Two React pages are modelled:                                           *)
(*   Index              (costbreak-viz-15-main/src/pages/Index.tsx) with   *)
(*                      its InputField and ResultsTable children;          *)
(*   AnalysisDashboard  (src/components/AnalysisDashboard.tsx).            *)
(* One of the two is mounted in a behaviour (variable page).               *)
(*                                                                         *)
(* JavaScript numbers are modelled as [n, d, e]: the value                 *)
(* (n / d) * 10^(154 * e), with n / d in lowest terms and d > 0; d = 0      *)
(* encodes NaN, +Infinity and -Infinity.  Within one tier e arithmetic is   *)
(* exact (IEEE-754 rounding and the sign of zero are abstracted away);      *)
(* across tiers it follows the double format: the smaller operand of a sum  *)
(* is absorbed, a product above the largest double is an infinity and one   *)
(* below the smallest double is 0.                                          *)
(***************************************************************************)
EXTENDS Integers, Sequences, FiniteSets, TLC

(* ------------------------------ numbers ------------------------------- *)

RECURSIVE GCD(_, _)
GCD(a, b) == IF b = 0 THEN a ELSE GCD(b, a % b)

AbsInt(i) == IF i < 0 THEN -i ELSE i

\* Decimal digits in one tier of magnitude: the largest double is
\* 1.797...e308 = 1.797... * 10^(2 * 154), the smallest 4.9e-324.
TierDigits == 154

NaN == [n |-> 0, d |-> 0, e |-> 0]
PosInf == [n |-> 1, d |-> 0, e |-> 0]
NegInf == [n |-> -1, d |-> 0, e |-> 0]

\* The rational n/d (d # 0) in lowest terms with a positive denominator.
R(n, d) ==
    IF d = 1 THEN [n |-> n, d |-> 1, e |-> 0]
    ELSE LET g == GCD(AbsInt(n), AbsInt(d))
             s == IF d < 0 THEN -1 ELSE 1
         IN  [n |-> s * (n \div g), d |-> s * (d \div g), e |-> 0]

Num(i) == [n |-> i, d |-> 1, e |-> 0]
Zero == Num(0)

\* The double nearest to r * 10^(154 * e) for a finite r of tier 0.  n and d
\* are 32-bit, so 10^-10 < |r| < 10^10 when r # 0: the value overflows
\* exactly when e > 2, or e = 2 and |r| is above 1.797..., and rounds to 0
\* exactly when e < -2.
Tiered(r, e) ==
    IF e = 0 THEN r
    ELSE IF r.n = 0 \/ e < -2 THEN Zero
    ELSE IF e > 2 \/ (e = 2 /\ AbsInt(r.n) * 1000 >= 1798 * r.d)
    THEN (IF r.n > 0 THEN PosInf ELSE NegInf)
    ELSE [n |-> r.n, d |-> r.d, e |-> e]

\* The double nearest to (n / d) * 10^(154 * e).
Scaled(n, d, e) == Tiered(R(n, d), e)

IsFinite(x) == x.d # 0
IsNaN(x) == x = NaN
SignOf(x) == IF x.n > 0 THEN 1 ELSE IF x.n < 0 THEN -1 ELSE 0

Neg(x) == [n |-> -x.n, d |-> x.d, e |-> x.e]

Add(x, y) ==
    IF IsFinite(x) /\ IsFinite(y) THEN
        IF x.e = y.e THEN Scaled(x.n * y.d + y.n * x.d, x.d * y.d, x.e)
        ELSE IF x.n = 0 THEN y
        ELSE IF y.n = 0 THEN x
        ELSE IF x.e > y.e THEN x ELSE y
    ELSE IF IsNaN(x) \/ IsNaN(y) THEN NaN
    ELSE IF IsFinite(x) THEN y
    ELSE IF IsFinite(y) THEN x
    ELSE IF x = y THEN x ELSE NaN

Sub(x, y) == Add(x, Neg(y))

Mul(x, y) ==
    IF IsFinite(x) /\ IsFinite(y) THEN Scaled(x.n * y.n, x.d * y.d, x.e + y.e)
    ELSE IF IsNaN(x) \/ IsNaN(y) THEN NaN
    ELSE IF SignOf(x) * SignOf(y) > 0 THEN PosInf
    ELSE IF SignOf(x) * SignOf(y) < 0 THEN NegInf
    ELSE NaN

Div(x, y) ==
    IF IsNaN(x) \/ IsNaN(y) THEN NaN
    ELSE IF IsFinite(x) /\ IsFinite(y) THEN
        IF y.n # 0 THEN Scaled(x.n * y.d, x.d * y.n, x.e - y.e)
        ELSE IF x.n > 0 THEN PosInf
        ELSE IF x.n < 0 THEN NegInf
        ELSE NaN
    ELSE IF IsFinite(x) THEN Zero
    ELSE IF IsFinite(y) THEN (IF SignOf(x) * (IF y.n < 0 THEN -1 ELSE 1) > 0
                              THEN PosInf ELSE NegInf)
    ELSE NaN

Lt(x, y) ==
    IF IsNaN(x) \/ IsNaN(y) THEN FALSE
    ELSE IF IsFinite(x) /\ IsFinite(y) THEN
        IF x.e = y.e THEN x.n * y.d < y.n * x.d
        ELSE IF x.n = 0 THEN y.n > 0
        ELSE IF y.n = 0 THEN x.n < 0
        ELSE IF x.e > y.e THEN x.n < 0 ELSE y.n > 0
    ELSE x # y /\ (x = NegInf \/ y = PosInf)

Le(x, y) == ~IsNaN(x) /\ ~IsNaN(y) /\ (x = y \/ Lt(x, y))
Gt(x, y) == Lt(y, x)
Ge(x, y) == Le(y, x)

Abs(x) == IF x.n < 0 THEN Neg(x) ELSE x

\* Math.max, Math.min, Math.floor, Math.ceil; a double of a tier above 0 is
\* an integer, one of a tier below 0 lies strictly between -1 and 1.
MathMax(x, y) == IF IsNaN(x) \/ IsNaN(y) THEN NaN ELSE IF Lt(x, y) THEN y ELSE x
MathMin(x, y) == IF IsNaN(x) \/ IsNaN(y) THEN NaN ELSE IF Lt(y, x) THEN y ELSE x
MathFloor(x) ==
    IF ~IsFinite(x) \/ x.e > 0 THEN x
    ELSE IF x.e < 0 THEN (IF x.n < 0 THEN Num(-1) ELSE Zero)
    ELSE Num(x.n \div x.d)
MathCeil(x) ==
    IF ~IsFinite(x) \/ x.e > 0 THEN x
    ELSE IF x.e < 0 THEN (IF x.n > 0 THEN Num(1) ELSE Zero)
    ELSE Num(-((-x.n) \div x.d))

(* --------------------------- text to number --------------------------- *)

\* A text is a sequence of one-character strings.
Digits == {"0", "1", "2", "3", "4", "5", "6", "7", "8", "9"}

DigitVal(c) ==
    CASE c = "0" -> 0 [] c = "1" -> 1 [] c = "2" -> 2 [] c = "3" -> 3
      [] c = "4" -> 4 [] c = "5" -> 5 [] c = "6" -> 6 [] c = "7" -> 7
      [] c = "8" -> 8 [] c = "9" -> 9

RECURSIVE Pow10(_)
Pow10(k) == IF k = 0 THEN 1 ELSE 10 * Pow10(k - 1)

\* First index at or after i that holds no white space.
RECURSIVE SkipWhiteSpace(_, _)
SkipWhiteSpace(s, i) ==
    IF i <= Len(s) /\ s[i] = " " THEN SkipWhiteSpace(s, i + 1) ELSE i

\* First index at or after i that holds no digit.
RECURSIVE DigitsEnd(_, _)
DigitsEnd(s, i) ==
    IF i <= Len(s) /\ s[i] \in Digits THEN DigitsEnd(s, i + 1) ELSE i

\* The value of the digits s[i .. j-1] (0 for an empty run).
RECURSIVE DigitsValue(_, _, _)
DigitsValue(s, i, j) ==
    IF j <= i THEN 0 ELSE 10 * DigitsValue(s, i, j - 1) + DigitVal(s[j - 1])

\* The global parseFloat on decimal literals: leading white space, an
\* optional sign, digits with an optional fraction, an optional exponent;
\* the longest such prefix is the value, and NaN when there is none.
parseFloat(s) ==
    LET i0 == SkipWhiteSpace(s, 1)
        signed == i0 <= Len(s) /\ s[i0] \in {"-", "+"}
        neg == signed /\ s[i0] = "-"
        i1 == IF signed THEN i0 + 1 ELSE i0
        i2 == DigitsEnd(s, i1)
        hasDot == i2 <= Len(s) /\ s[i2] = "."
        i3 == IF hasDot THEN DigitsEnd(s, i2 + 1) ELSE i2
        intDigits == i2 - i1
        fracDigits == IF hasDot THEN i3 - (i2 + 1) ELSE 0
        mantissa == R(DigitsValue(s, i1, i2) * Pow10(fracDigits)
                        + (IF hasDot THEN DigitsValue(s, i2 + 1, i3) ELSE 0),
                      Pow10(fracDigits))
        hasE == i3 <= Len(s) /\ s[i3] \in {"e", "E"}
        eSigned == hasE /\ i3 + 1 <= Len(s) /\ s[i3 + 1] \in {"-", "+"}
        j1 == IF eSigned THEN i3 + 2 ELSE i3 + 1
        j2 == IF hasE THEN DigitsEnd(s, j1) ELSE j1
        hasExp == hasE /\ j2 > j1
        e == IF hasExp THEN DigitsValue(s, j1, j2) ELSE 0
        tiers == [n |-> 1, d |-> 1, e |-> e \div TierDigits]
        scaled == IF hasExp /\ eSigned /\ s[i3 + 1] = "-"
                  THEN Div(Div(mantissa, Num(Pow10(e % TierDigits))), tiers)
                  ELSE Mul(Mul(mantissa, Num(Pow10(e % TierDigits))), tiers)
    IN  IF intDigits + fracDigits = 0 THEN NaN
        ELSE IF neg THEN Neg(scaled) ELSE scaled

\* x || 0 on a number: NaN and zero are falsy.
OrZero(x) == IF IsNaN(x) \/ x = Zero THEN Zero ELSE x

\* String.prototype.slice(0, k)
Slice0(s, k) == IF Len(s) > k THEN SubSeq(s, 1, k) ELSE s

(* ------------------------------- Index -------------------------------- *)

NULL == [null |-> TRUE]

\* Index.tsx useState<FinancialData> initial value
InitialData ==
    [units |-> Num(1000), fixedCost |-> Num(50000),
     variableCostPerUnit |-> Num(20), sellingPricePerUnit |-> Num(35)]

\* The record calculateResults builds once both validations pass.
calculations(inputData) ==
    LET units == inputData.units
        fixedCost == inputData.fixedCost
        variableCostPerUnit == inputData.variableCostPerUnit
        sellingPricePerUnit == inputData.sellingPricePerUnit
        fixedCostPerUnit == Div(fixedCost, units)
        totalVariableCost == Mul(variableCostPerUnit, units)
        totalCost == Add(fixedCost, totalVariableCost)
        totalCostPerUnit == Div(totalCost, units)
        salesRevenue == Mul(sellingPricePerUnit, units)
        profitOrLoss == Sub(salesRevenue, totalCost)
        breakEvenUnits == Div(fixedCost, Sub(sellingPricePerUnit, variableCostPerUnit))
        breakEvenRevenue == Mul(breakEvenUnits, sellingPricePerUnit)
    IN  [fixedCostPerUnit |-> fixedCostPerUnit,
         totalVariableCost |-> totalVariableCost,
         totalCost |-> totalCost,
         totalCostPerUnit |-> totalCostPerUnit,
         salesRevenue |-> salesRevenue,
         profitOrLoss |-> profitOrLoss,
         breakEvenUnits |-> breakEvenUnits,
         breakEvenRevenue |-> breakEvenRevenue]

\* validate with the margin test strict (<) instead of (<=).
validateStrictMargin(inputData) ==
    IF Lt(inputData.sellingPricePerUnit, inputData.variableCostPerUnit)
    THEN "unattainable"
    ELSE IF \/ Le(inputData.units, Zero)
            \/ Lt(inputData.fixedCost, Zero)
            \/ Lt(inputData.variableCostPerUnit, Zero)
            \/ Le(inputData.sellingPricePerUnit, Zero)
    THEN "invalid"
    ELSE "ok"

\* validate without the fixedCost < 0 test.
validateNoFixedCostTest(inputData) ==
    IF Le(inputData.sellingPricePerUnit, inputData.variableCostPerUnit)
    THEN "unattainable"
    ELSE IF \/ Le(inputData.units, Zero)
            \/ Lt(inputData.variableCostPerUnit, Zero)
            \/ Le(inputData.sellingPricePerUnit, Zero)
    THEN "invalid"
    ELSE "ok"

\* The two validations of calculateResults, in the order the code runs them:
\* "unattainable" (toast, null), "invalid" (null) or "ok".
validate(inputData) ==
    IF Le(inputData.sellingPricePerUnit, inputData.variableCostPerUnit)
    THEN "unattainable"
    ELSE IF \/ Le(inputData.units, Zero)
            \/ Lt(inputData.fixedCost, Zero)
            \/ Lt(inputData.variableCostPerUnit, Zero)
            \/ Le(inputData.sellingPricePerUnit, Zero)
    THEN "invalid"
    ELSE "ok"

\* calculateResults with totalCost = fixedCost + variableCostPerUnit (the
\* multiplication by units forgotten).
calculateResultsUnitCost(inputData) ==
    IF validate(inputData) = "ok"
    THEN [value |-> [calculations(inputData) EXCEPT
                        !.totalCost = Add(inputData.fixedCost,
                                          inputData.variableCostPerUnit)],
          toast |-> FALSE]
    ELSE [value |-> NULL, toast |-> validate(inputData) = "unattainable"]

\* Index.calculateResults: the value returned (NULL or the record) and
\* whether the call raised the break-even toast.
calculateResults(inputData) ==
    IF validate(inputData) = "ok"
    THEN [value |-> calculations(inputData), toast |-> FALSE]
    ELSE [value |-> NULL, toast |-> validate(inputData) = "unattainable"]

\* What ResultsTable computes and shows for its props: the profit margin,
\* the profit/loss card ("Ganancia" or "Perdida") and the status badge.
ResultsTable(d, results) ==
    LET profitMargin ==
            Mul(Div(results.profitOrLoss, results.salesRevenue), Num(100))
        isProfit == Gt(results.profitOrLoss, Zero)
    IN  [profitMargin |-> profitMargin,
         isProfit |-> isProfit,
         card |-> IF isProfit THEN "Ganancia" ELSE "Perdida",
         badge |-> IF Ge(d.units, results.breakEvenUnits)
                   THEN "Por encima del punto de equilibrio"
                   ELSE "Por debajo del punto de equilibrio"]

\* What one render of Index produces from the data it is given: results,
\* isValidData, the toast raised while rendering, the results section and,
\* when that section is the ResultsTable, what the table shows.
IndexRender(d) ==
    LET call == calculateResults(d)
        isValidData == call.value # NULL
        shown == isValidData /\ call.value # NULL
    IN  [results |-> call.value,
         isValidData |-> isValidData,
         toast |-> call.toast,
         section |-> IF shown THEN "ResultsTable" ELSE "placeholder",
         table |-> IF shown THEN ResultsTable(d, call.value) ELSE NULL]

(* ------------------------- AnalysisDashboard -------------------------- *)

\* useState<FormData> initial value, also what handleReset stores
InitialFormData ==
    [units |-> Num(100), fixedCost |-> Num(10000),
     variableCostPerUnit |-> Num(15), sellingPricePerUnit |-> Num(25),
     taxRate |-> Num(30)]

\* useState<CalculationResults> initial value, also the effect's reset value
ZeroResults ==
    [breakEvenUnits |-> Zero, breakEvenRevenue |-> Zero, totalRevenue |-> Zero,
     totalCost |-> Zero, profitBeforeTax |-> Zero, netProfit |-> Zero]

\* useState initial value of sensitivityChanges (slider positions, integers)
InitialSensitivity ==
    [priceChange |-> 0, variableCostChange |-> 0,
     fixedCostChange |-> 0, taxRateChange |-> 0]

\* Adjust with the factor applied twice (compounded).
AdjustCompounded(base, change) ==
    Mul(Mul(base, Add(Num(1), Div(Num(change), Num(100)))),
        Add(Num(1), Div(Num(change), Num(100))))

\* base * (1 + change / 100)
Adjust(base, change) == Mul(base, Add(Num(1), Div(Num(change), Num(100))))

\* "Apply sensitivity adjustments"
Adjusted(fd, sc) ==
    [adjustedSellingPrice |-> Adjust(fd.sellingPricePerUnit, sc.priceChange),
     adjustedVariableCost |-> Adjust(fd.variableCostPerUnit, sc.variableCostChange),
     adjustedFixedCost |-> Adjust(fd.fixedCost, sc.fixedCostChange),
     adjustedTaxRate |-> Adjust(fd.taxRate, sc.taxRateChange)]

\* adjustedSellingPrice - adjustedVariableCost
contributionMargin(a) == Sub(a.adjustedSellingPrice, a.adjustedVariableCost)

\* AfterTax with the rate taken as a fraction, not a percentage.
AfterTaxFraction(x, adjustedTaxRate) == Mul(x, Sub(Num(1), adjustedTaxRate))

\* x * (1 - adjustedTaxRate / 100)
AfterTax(x, adjustedTaxRate) ==
    Mul(x, Sub(Num(1), Div(adjustedTaxRate, Num(100))))

\* MainResults with the break-even quantity taken from the raw fixedCost.
MainResultsRawFixedCost(fd, a) ==
    LET breakEvenUnits == Div(fd.fixedCost, contributionMargin(a))
        breakEvenRevenue == Mul(breakEvenUnits, a.adjustedSellingPrice)
        totalRevenue == Mul(fd.units, a.adjustedSellingPrice)
        totalCost == Add(a.adjustedFixedCost, Mul(fd.units, a.adjustedVariableCost))
        profitBeforeTax == Sub(totalRevenue, totalCost)
        netProfit == AfterTax(profitBeforeTax, a.adjustedTaxRate)
    IN  [breakEvenUnits |-> breakEvenUnits,
         breakEvenRevenue |-> breakEvenRevenue,
         totalRevenue |-> totalRevenue,
         totalCost |-> totalCost,
         profitBeforeTax |-> profitBeforeTax,
         netProfit |-> netProfit]

\* "Calculate main results using adjusted values"
MainResults(fd, a) ==
    LET breakEvenUnits == Div(a.adjustedFixedCost, contributionMargin(a))
        breakEvenRevenue == Mul(breakEvenUnits, a.adjustedSellingPrice)
        totalRevenue == Mul(fd.units, a.adjustedSellingPrice)
        totalCost == Add(a.adjustedFixedCost, Mul(fd.units, a.adjustedVariableCost))
        profitBeforeTax == Sub(totalRevenue, totalCost)
        netProfit == AfterTax(profitBeforeTax, a.adjustedTaxRate)
    IN  [breakEvenUnits |-> breakEvenUnits,
         breakEvenRevenue |-> breakEvenRevenue,
         totalRevenue |-> totalRevenue,
         totalCost |-> totalCost,
         profitBeforeTax |-> profitBeforeTax,
         netProfit |-> netProfit]

\* TableRow whose total cost leaves the fixed cost out.
TableRowNoFixedCost(q, a) ==
    LET costoVariableTotal == Mul(q, a.adjustedVariableCost)
        costoTotal == costoVariableTotal
        ingresoTotal == Mul(q, a.adjustedSellingPrice)
        gananciaOPerdida == Sub(ingresoTotal, costoTotal)
        utilidadNeta == AfterTax(gananciaOPerdida, a.adjustedTaxRate)
    IN  [cantidad |-> q,
         costoFijoTotal |-> a.adjustedFixedCost,
         costoVariableTotal |-> costoVariableTotal,
         costoTotal |-> costoTotal,
         ingresoTotal |-> ingresoTotal,
         gananciaOPerdida |-> gananciaOPerdida,
         utilidadNeta |-> utilidadNeta]

\* One table row for quantity q
TableRow(q, a) ==
    LET costoVariableTotal == Mul(q, a.adjustedVariableCost)
        costoTotal == Add(a.adjustedFixedCost, costoVariableTotal)
        ingresoTotal == Mul(q, a.adjustedSellingPrice)
        gananciaOPerdida == Sub(ingresoTotal, costoTotal)
        utilidadNeta == AfterTax(gananciaOPerdida, a.adjustedTaxRate)
    IN  [cantidad |-> q,
         costoFijoTotal |-> a.adjustedFixedCost,
         costoVariableTotal |-> costoVariableTotal,
         costoTotal |-> costoTotal,
         ingresoTotal |-> ingresoTotal,
         gananciaOPerdida |-> gananciaOPerdida,
         utilidadNeta |-> utilidadNeta]

\* tableRows with the loop bounded by Math.min(10, units).
tableRowsUpToUnits(units, a) ==
    LET last == MathFloor(MathMin(Num(10), units)).n
        firstRows == [i \in 1..last |-> TableRow(Num(i), a)]
    IN  IF Gt(units, Num(10))
        THEN Append(firstRows, TableRow(units, a))
        ELSE firstRows

\* tableRows without the row for the user's quantity.
tableRowsNoUnitsRow(units, a) ==
    LET maxQuantity == MathMax(Num(10), units)
        last == MathFloor(MathMin(Num(10), maxQuantity)).n
    IN  [i \in 1..last |-> TableRow(Num(i), a)]

\* "Generate table data (quantities 1-10, plus user input if > 10)"
tableRows(units, a) ==
    LET maxQuantity == MathMax(Num(10), units)
        last == MathFloor(MathMin(Num(10), maxQuantity)).n
        firstRows == [i \in 1..last |-> TableRow(Num(i), a)]
    IN  IF Gt(units, Num(10))
        THEN Append(firstRows, TableRow(units, a))
        ELSE firstRows

\* One chart point for quantity q, computed from the adjusted values
ChartPoint(q, a) ==
    LET costoTotal == Add(a.adjustedFixedCost, Mul(q, a.adjustedVariableCost))
        ingresoTotal == Mul(q, a.adjustedSellingPrice)
        utilidadAntesImpuestos == Sub(ingresoTotal, costoTotal)
        utilidadNeta == AfterTax(utilidadAntesImpuestos, a.adjustedTaxRate)
    IN  [cantidad |-> q,
         costoTotal |-> costoTotal,
         ingresoTotal |-> ingresoTotal,
         costoFijo |-> a.adjustedFixedCost,
         utilidadAntesImpuestos |-> utilidadAntesImpuestos,
         utilidadNeta |-> utilidadNeta]

\* chartRange without the 20% margin.
chartRangeNoMargin(units, breakEvenUnits) ==
    MathCeil(MathMax(units, breakEvenUnits))

\* Math.ceil(Math.max(units, breakEvenUnits) * 1.2)
chartRange(units, breakEvenUnits) ==
    MathCeil(Mul(MathMax(units, breakEvenUnits), R(12, 10)))

\* Math.max(1, Math.floor(chartRange / 20))
chartStep(range) == MathMax(Num(1), MathFloor(Div(range, Num(20))))

\* for (quantity = 0; quantity <= chartRange; quantity += step), for a
\* chartRange other than +Infinity: the loop body runs
\* floor(chartRange / step) + 1 times, and not at all when the condition
\* fails at quantity = 0 (a negative, NaN or -Infinity chartRange).
chartGrid(range, step, a) ==
    LET count == IF ~IsFinite(range) \/ Lt(range, Zero) THEN 0
                 ELSE MathFloor(Div(range, step)).n + 1
    IN  [i \in 1..count |-> ChartPoint(Mul(Num(i - 1), step), a)]

\* Whether the grid loop of the effect ends.  With chartRange = +Infinity the
\* step is +Infinity too: quantity goes 0, Infinity, Infinity, ... and
\* quantity <= chartRange stays true.  The reset branch has no loop.
chartLoopEnds(fd, sc) ==
    LET a == Adjusted(fd, sc)
    IN  Gt(contributionMargin(a), Zero) =>
            chartRange(fd.units, MainResults(fd, a).breakEvenUnits) # PosInf

\* chartPoints.some(p => Math.abs(p.cantidad - x) < step / 2)
SomeNear(points, x, step) ==
    \E i \in 1..Len(points) :
        Lt(Abs(Sub(points[i].cantidad, x)), Div(step, Num(2)))

\* Array.prototype.sort((a, b) => a.cantidad - b.cantidad): stable, ascending
RECURSIVE InsertByCantidad(_, _)
InsertByCantidad(sorted, p) ==
    IF sorted = <<>> THEN <<p>>
    ELSE IF Lt(p.cantidad, sorted[Len(sorted)].cantidad)
    THEN Append(InsertByCantidad(SubSeq(sorted, 1, Len(sorted) - 1), p),
                sorted[Len(sorted)])
    ELSE Append(sorted, p)

\* The points left in insertion order.
KeepInsertionOrder(points) == points

RECURSIVE SortByCantidad(_)
SortByCantidad(points) ==
    IF points = <<>> THEN <<>>
    ELSE InsertByCantidad(SortByCantidad(SubSeq(points, 1, Len(points) - 1)),
                          points[Len(points)])

\* "Generate chart data", the forced break-even and units points, the sort;
\* a holds the adjusted values and r the main results.
chartPoints(units, a, r) ==
    LET range == chartRange(units, r.breakEvenUnits)
        step == chartStep(range)
        grid == chartGrid(range, step, a)
        withBreakEven ==
            IF ~SomeNear(grid, r.breakEvenUnits, step)
            THEN Append(grid, ChartPoint(r.breakEvenUnits, a))
            ELSE grid
        withUnits ==
            IF ~SomeNear(withBreakEven, units, step)
            THEN Append(withBreakEven,
                        [cantidad |-> units,
                         costoTotal |-> r.totalCost,
                         ingresoTotal |-> r.totalRevenue,
                         costoFijo |-> a.adjustedFixedCost,
                         utilidadAntesImpuestos |-> r.profitBeforeTax,
                         utilidadNeta |-> r.netProfit])
            ELSE withBreakEven
    IN  SortByCantidad(withUnits)

\* What the effect stores for form data fd and slider positions sc.
EffectOutput(fd, sc) ==
    LET a == Adjusted(fd, sc)
        r == MainResults(fd, a)
    IN  IF Gt(contributionMargin(a), Zero)
        THEN [results |-> r,
              tableData |-> tableRows(fd.units, a),
              chartData |-> chartPoints(fd.units, a, r)]
        ELSE [results |-> ZeroResults, tableData |-> <<>>, chartData |-> <<>>]

(* ---------------------------- state machine --------------------------- *)

\* User events in one session of AnalysisDashboard, and of Index.
MaxEvents == 2
MaxIndexEvents == 3

\* Texts typed into an InputField of Index; the last two are the small
\* positive numbers 10^-154 and 10^-308.
InputTexts ==
    { <<>>,
      <<"a", "b", "c">>,
      <<"1">>,
      <<"1", "5">>,
      <<"2", "0">>,
      <<"-", "3">>,
      <<"1", "2", ".", "5">>,
      <<"1", "e", "-", "1", "5", "4">>,
      <<"1", "e", "-", "3", "0", "8">> }

\* Texts typed into each input of AnalysisDashboard; the last one for
\* sellingPricePerUnit is 13 characters long, the last one for units is the
\* large finite number 1.7 * 10^308.
FormTexts(field) ==
    CASE field = "units" ->
            { <<>>, <<"5">>, <<"1", "5">>, <<"1", ".", "7", "e", "3", "0", "8">> }
      [] field = "fixedCost" -> { <<"a", "b", "c">>, <<"-", "3">> }
      [] field = "variableCostPerUnit" -> { <<"-", "3">>, <<"2", "5">> }
      [] field = "sellingPricePerUnit" ->
            { <<>>, <<"1", "5">>,
              <<"0", "0", "0", "0", "0", "0", "0", "0", "0", "0", "3", "0", "0">> }
      [] field = "taxRate" -> { <<>>, <<"1", "0", "0">> }

\* Slider positions tried (each slider: min -50, max 50, step 1).
SliderValues == {-50, 0, 20}

IndexFields == {"units", "fixedCost", "variableCostPerUnit", "sellingPricePerUnit"}
FormFields == IndexFields \cup {"taxRate"}
SensitivityFields ==
    {"priceChange", "variableCostChange", "fixedCostChange", "taxRateChange"}

VARIABLES
    page,               \* the mounted page: "Index" or "AnalysisDashboard"
    events,             \* user events handled so far
    data,               \* Index: useState data
    rendered,           \* Index: what the last render produced
    toasts,             \* Index: toasts raised so far
    formData,           \* AnalysisDashboard: useState formData
    sensitivityChanges, \* AnalysisDashboard: useState sensitivityChanges
    results,            \* AnalysisDashboard: useState results
    tableData,          \* AnalysisDashboard: useState tableData
    chartData,          \* AnalysisDashboard: useState chartData
    effectPending,      \* AnalysisDashboard: rendered, effect not yet run
    effectDeps          \* AnalysisDashboard: dependencies of the last effect run

vars == <<page, events, data, rendered, toasts, formData, sensitivityChanges,
          results, tableData, chartData, effectPending, effectDeps>>

indexVars == <<data, rendered, toasts>>
dashboardVars == <<formData, sensitivityChanges, results, tableData, chartData,
                   effectPending, effectDeps>>

\* The state after the first render of the mounted page; the dashboard's
\* mount effect has not run yet.
Init ==
    /\ page \in {"Index", "AnalysisDashboard"}
    /\ events = 0
    /\ data = InitialData
    /\ rendered = IndexRender(InitialData)
    /\ toasts = 0
    /\ formData = InitialFormData
    /\ sensitivityChanges = InitialSensitivity
    /\ results = ZeroResults
    /\ tableData = <<>>
    /\ chartData = <<>>
    /\ effectPending = (page = "AnalysisDashboard")
    /\ effectDeps = <<>>

\* InputField.handleChange: the number handed to onChange
handleChange(text) == OrZero(parseFloat(text))

\* Index.handleInputChange: the setData updater
setData(prev, field, value) == [prev EXCEPT ![field] = value]

\* A change event in one InputField of Index, and the render that follows.
InputFieldChange(field, text) ==
    /\ page = "Index"
    /\ events < MaxIndexEvents
    /\ events' = events + 1
    /\ data' = setData(data, field, handleChange(text))
    /\ rendered' = IndexRender(data')
    /\ toasts' = toasts + (IF rendered'.toast THEN 1 ELSE 0)
    /\ UNCHANGED <<page, dashboardVars>>

\* numericValue without the "|| 0" fallback.
numericValueNoFallback(text) == parseFloat(Slice0(text, 12))

\* AnalysisDashboard.handleInputChange: the number stored for the text
numericValue(text) == OrZero(parseFloat(Slice0(text, 12)))

\* AnalysisDashboard.handleInputChange(field)(e); the component renders
\* again with the new formData and the effect is scheduled.
handleInputChange(field, text) ==
    /\ page = "AnalysisDashboard"
    /\ ~effectPending
    /\ events < MaxEvents
    /\ events' = events + 1
    /\ formData' = [formData EXCEPT ![field] = numericValue(text)]
    /\ effectPending' = TRUE
    /\ UNCHANGED <<page, indexVars, sensitivityChanges, results, tableData,
                   chartData, effectDeps>>

\* AnalysisDashboard.handleSensitivityChange(field)(value); the slider
\* reports a position only when it changes.
handleSensitivityChange(field, value) ==
    /\ page = "AnalysisDashboard"
    /\ ~effectPending
    /\ events < MaxEvents
    /\ value # sensitivityChanges[field]
    /\ events' = events + 1
    /\ sensitivityChanges' = [sensitivityChanges EXCEPT ![field] = value]
    /\ effectPending' = TRUE
    /\ UNCHANGED <<page, indexVars, formData, results, tableData, chartData,
                   effectDeps>>

\* handleReset that restores the form and leaves the sliders where they are.
handleResetKeepsSliders ==
    /\ page = "AnalysisDashboard"
    /\ ~effectPending
    /\ events < MaxEvents
    /\ events' = events + 1
    /\ formData' = InitialFormData
    /\ effectPending' = TRUE
    /\ UNCHANGED <<page, indexVars, sensitivityChanges, results, tableData,
                   chartData, effectDeps>>

\* AnalysisDashboard.handleReset
handleReset ==
    /\ page = "AnalysisDashboard"
    /\ ~effectPending
    /\ events < MaxEvents
    /\ events' = events + 1
    /\ formData' = InitialFormData
    /\ sensitivityChanges' = InitialSensitivity
    /\ effectPending' = TRUE
    /\ UNCHANGED <<page, indexVars, results, tableData, chartData, effectDeps>>

\* Effect with the new table rows pushed onto the stored tableData.
EffectAppending ==
    /\ page = "AnalysisDashboard"
    /\ effectPending
    /\ chartLoopEnds(formData, sensitivityChanges)
    /\ LET out == EffectOutput(formData, sensitivityChanges)
       IN  /\ results' = out.results
           /\ tableData' = tableData \o out.tableData
           /\ chartData' = out.chartData
    /\ effectPending' = FALSE
    /\ effectDeps' = <<formData, sensitivityChanges>>
    /\ UNCHANGED <<page, events, indexVars, formData, sensitivityChanges>>

\* Effect whose reset branch leaves the stored chartData in place.
EffectResetKeepsChart ==
    /\ page = "AnalysisDashboard"
    /\ effectPending
    /\ chartLoopEnds(formData, sensitivityChanges)
    /\ LET out == EffectOutput(formData, sensitivityChanges)
       IN  /\ results' = out.results
           /\ tableData' = out.tableData
           /\ chartData' = IF out.tableData = <<>> THEN chartData
                           ELSE out.chartData
    /\ effectPending' = FALSE
    /\ effectDeps' = <<formData, sensitivityChanges>>
    /\ UNCHANGED <<page, events, indexVars, formData, sensitivityChanges>>

\* The useEffect callback, run after the render that changed formData or
\* sensitivityChanges and before the next event is handled.  It completes
\* only if its grid loop ends; otherwise the page handles no further event.
Effect ==
    /\ page = "AnalysisDashboard"
    /\ effectPending
    /\ chartLoopEnds(formData, sensitivityChanges)
    /\ LET out == EffectOutput(formData, sensitivityChanges)
       IN  /\ results' = out.results
           /\ tableData' = out.tableData
           /\ chartData' = out.chartData
    /\ effectPending' = FALSE
    /\ effectDeps' = <<formData, sensitivityChanges>>
    /\ UNCHANGED <<page, events, indexVars, formData, sensitivityChanges>>

Next ==
    \/ \E field \in IndexFields, text \in InputTexts : InputFieldChange(field, text)
    \/ \E field \in FormFields : \E text \in FormTexts(field) :
           handleInputChange(field, text)
    \/ \E field \in SensitivityFields, value \in SliderValues :
           handleSensitivityChange(field, value)
    \/ handleReset
    \/ Effect

Spec == Init /\ [][Next]_vars

\* Rendering of AnalysisDashboard: the validity flag computed in the render
\* and the section shown under it.
isValidBreakEven ==
    Gt(Adjusted(formData, sensitivityChanges).adjustedSellingPrice,
       Adjusted(formData, sensitivityChanges).adjustedVariableCost)

DashboardSection ==
    IF isValidBreakEven THEN "results" ELSE "Punto de Equilibrio Inalcanzable"

(* ------------------------------- claims ------------------------------- *)

\* The adjusted values of the current form state.
Current == Adjusted(formData, sensitivityChanges)

\* The dashboard has run its effect for the current form state.
Settled == page = "AnalysisDashboard" /\ ~effectPending

\* C1: every record returned by Index.calculateResults has
\* totalVariableCost = variableCostPerUnit * units and
\* totalCost = fixedCost + variableCostPerUnit * units; the dashboard effect
\* stores totalCost = adjustedFixedCost + units * adjustedVariableCost; and
\* units=1000, fixedCost=50000, variableCostPerUnit=20, sellingPricePerUnit=35
\* gives 20000, 70000, salesRevenue 35000 and profitOrLoss -35000.
C1_TotalCost ==
    /\ (page = "Index" /\ rendered.results # NULL) =>
          /\ rendered.results.totalVariableCost
                = Mul(data.variableCostPerUnit, data.units)
          /\ rendered.results.totalCost
                = Add(data.fixedCost, Mul(data.variableCostPerUnit, data.units))
    /\ (page = "Index" /\ data = InitialData) =>
          /\ rendered.results # NULL
          /\ rendered.results.totalVariableCost = Num(20000)
          /\ rendered.results.totalCost = Num(70000)
          /\ rendered.results.salesRevenue = Num(35000)
          /\ rendered.results.profitOrLoss = Num(-35000)
    /\ (Settled /\ Gt(Current.adjustedSellingPrice, Current.adjustedVariableCost)) =>
          results.totalCost
            = Add(Current.adjustedFixedCost,
                  Mul(formData.units, Current.adjustedVariableCost))

\* An accepted, edited input: units = 15 with the other defaults.
C1_Witness ==
    /\ page = "Index"
    /\ data = [InitialData EXCEPT !.units = Num(15)]
    /\ rendered.results # NULL
    /\ rendered.results.totalCost = Num(50300)

AllFinite(rec) == \A f \in DOMAIN rec : IsFinite(rec[f])

\* C3: when the (adjusted) selling price is <= the (adjusted) variable cost,
\* no numeric result is produced and nothing is divided by the margin:
\* calculateResults returns null with the toast; the dashboard effect resets
\* results, tableData and chartData and the render shows the
\* "Punto de Equilibrio Inalcanzable" card.
C3_UnattainableRejected ==
    /\ (page = "Index"
          /\ Le(data.sellingPricePerUnit, data.variableCostPerUnit)) =>
          /\ rendered.results = NULL
          /\ rendered.toast
          /\ rendered.section = "placeholder"
    /\ (page = "Index" /\ rendered.results # NULL) =>
          /\ Gt(Sub(data.sellingPricePerUnit, data.variableCostPerUnit), Zero)
          /\ ~IsNaN(rendered.results.breakEvenUnits)
    /\ (page = "AnalysisDashboard"
          /\ Le(Current.adjustedSellingPrice, Current.adjustedVariableCost)) =>
          /\ DashboardSection = "Punto de Equilibrio Inalcanzable"
          /\ ~effectPending =>
                /\ results = ZeroResults
                /\ tableData = <<>>
                /\ chartData = <<>>
    /\ page = "AnalysisDashboard" => AllFinite(results)

\* The boundary itself: price equal to variable cost, all fields valid.
C3_Witness ==
    /\ page = "Index"
    /\ data.sellingPricePerUnit = data.variableCostPerUnit
    /\ Gt(data.sellingPricePerUnit, Zero)
    /\ Gt(data.units, Zero)
    /\ rendered.results = NULL

\* C4: Index.calculateResults returns a record if and only if units > 0,
\* fixedCost >= 0, variableCostPerUnit >= 0, sellingPricePerUnit > 0 and
\* sellingPricePerUnit > variableCostPerUnit; otherwise it returns null and
\* the page renders the placeholder instead of ResultsTable.
C4_AcceptedIff ==
    page = "Index" =>
        /\ rendered.results # NULL <=>
              /\ Gt(data.units, Zero)
              /\ Ge(data.fixedCost, Zero)
              /\ Ge(data.variableCostPerUnit, Zero)
              /\ Gt(data.sellingPricePerUnit, Zero)
              /\ Gt(data.sellingPricePerUnit, data.variableCostPerUnit)
        /\ rendered.section
              = IF rendered.results = NULL THEN "placeholder" ELSE "ResultsTable"

\* A negative fixed cost with a positive margin is rejected.
C4_Witness ==
    /\ page = "Index"
    /\ Lt(data.fixedCost, Zero)
    /\ Gt(data.units, Zero)
    /\ Gt(data.sellingPricePerUnit, data.variableCostPerUnit)
    /\ rendered.results = NULL
    /\ rendered.section = "placeholder"

\* Some precondition on the individual fields is violated.
FieldInvalid(d) ==
    \/ Le(d.units, Zero)
    \/ Lt(d.fixedCost, Zero)
    \/ Lt(d.variableCostPerUnit, Zero)
    \/ Le(d.sellingPricePerUnit, Zero)

\* C5: in AnalysisDashboard a form state with units <= 0, fixedCost < 0,
\* variableCostPerUnit < 0 or sellingPricePerUnit <= 0 is rejected: once the
\* effect has run, no results, table rows or chart points are produced or
\* displayed for it, even when the adjusted margin is positive.
C5_InvalidFormRejected ==
    (Settled /\ FieldInvalid(formData)) =>
        /\ results = ZeroResults
        /\ tableData = <<>>
        /\ chartData = <<>>
        /\ DashboardSection # "results"

\* C6: Index.calculateResults raises the break-even toast only for inputs
\* whose fields are all individually valid and whose margin is <= 0; an input
\* violating an individual precondition gives null without the toast.
C6_ToastOnlyForValidFields ==
    page = "Index" =>
        /\ FieldInvalid(data) => (rendered.results = NULL /\ ~rendered.toast)
        /\ rendered.toast =>
              (~FieldInvalid(data)
                 /\ Le(data.sellingPricePerUnit, data.variableCostPerUnit))

\* C7: invoking Index.calculateResults has no side effect: no toast is ever
\* raised by it, whatever the input.
C7_NoToastRaised ==
    page = "Index" => (toasts = 0 /\ ~rendered.toast)

\* base * (1 + change / 100), written with one division
AdjustedOnce(base, change) == Div(Mul(base, Num(100 + change)), Num(100))

\* C8: after any sequence of handleInputChange, handleSensitivityChange and
\* handleReset followed by the effect, each adjusted parameter is
\* base * (1 + adjustment / 100) for the current base and the current slider
\* position only; base price 25 with priceChange = +20 gives an adjusted
\* price of 30 and breakEvenUnits = 10000 / 15 whatever the slider history.
C8_AdjustedOnce ==
    /\ (Settled /\ Gt(Current.adjustedSellingPrice, Current.adjustedVariableCost)) =>
          /\ tableData[1].ingresoTotal
                = AdjustedOnce(formData.sellingPricePerUnit,
                               sensitivityChanges.priceChange)
          /\ tableData[1].costoVariableTotal
                = AdjustedOnce(formData.variableCostPerUnit,
                               sensitivityChanges.variableCostChange)
          /\ tableData[1].costoFijoTotal
                = AdjustedOnce(formData.fixedCost,
                               sensitivityChanges.fixedCostChange)
          /\ results.netProfit
                = Mul(results.profitBeforeTax,
                      Sub(Num(1),
                          Div(AdjustedOnce(formData.taxRate,
                                           sensitivityChanges.taxRateChange),
                              Num(100))))
    /\ (Settled
          /\ formData = InitialFormData
          /\ sensitivityChanges = [InitialSensitivity EXCEPT !.priceChange = 20]) =>
          /\ tableData[1].ingresoTotal = Num(30)
          /\ results.breakEvenUnits = R(10000, 15)

\* priceChange = +20 on the default form, reached through an earlier event
\* (another slider position or a reset).
C8_Witness ==
    /\ Settled
    /\ events >= 2
    /\ formData = InitialFormData
    /\ sensitivityChanges = [InitialSensitivity EXCEPT !.priceChange = 20]
    /\ results.breakEvenUnits = R(2000, 3)

\* C9: recomputation is deterministic and idempotent: running the effect
\* again on the formData and sensitivityChanges of its last run stores the
\* same results, the same table rows in the same order and the same chart
\* points in the same order; rendering Index again on the same data gives the
\* same results.
C9_Idempotent ==
    /\ [][(page = "AnalysisDashboard"
             /\ effectPending /\ ~effectPending'
             /\ effectDeps = <<formData, sensitivityChanges>>) =>
            (results' = results /\ tableData' = tableData /\ chartData' = chartData)]_vars
    /\ [][(page = "Index" /\ data' = data) => rendered' = rendered]_vars

\* The effect is about to run again on the parameters of its last run, with
\* computed results, rows and points in the state.
C9_Witness ==
    /\ page = "AnalysisDashboard"
    /\ effectPending
    /\ effectDeps = <<formData, sensitivityChanges>>
    /\ results # ZeroResults
    /\ Len(tableData) > 0
    /\ Len(chartData) > 0

\* C10: results are never displayed stale: whenever the results section is
\* shown, the displayed results, table and chart are those computed from the
\* current parameters, also in the render between a setFormData or
\* setSensitivityChanges and the next run of the effect.
C10_NeverStale ==
    /\ page = "Index" => rendered = IndexRender(data)
    /\ (page = "AnalysisDashboard" /\ DashboardSection = "results") =>
          /\ results = EffectOutput(formData, sensitivityChanges).results
          /\ tableData = EffectOutput(formData, sensitivityChanges).tableData
          /\ chartData = EffectOutput(formData, sensitivityChanges).chartData

\* The adjusted margin of the current form state is positive.
MarginPositive == Gt(Current.adjustedSellingPrice, Current.adjustedVariableCost)

\* C11: no partial output: after every run of the effect either results,
\* tableData and chartData are all freshly computed (results from the
\* formulas, tableData and chartData non-empty) or all reset (results all
\* zero, both lists empty), and they are computed exactly when
\* adjustedSellingPrice > adjustedVariableCost.
C11_AllOrNothing ==
    Settled =>
        IF MarginPositive
        THEN /\ results = MainResults(formData, Current)
             /\ Len(tableData) > 0
             /\ Len(chartData) > 0
        ELSE /\ results = ZeroResults
             /\ tableData = <<>>
             /\ chartData = <<>>

\* The reset branch taken after an edit, replacing computed outputs.
C11_Witness ==
    /\ Settled
    /\ events >= 1
    /\ ~MarginPositive
    /\ results = ZeroResults
    /\ tableData = <<>>
    /\ chartData = <<>>

\* C12: whenever the table is generated its first ten rows have quantities
\* 1, 2, ..., 10 in that order for every value of units, and there is exactly
\* one further row, with quantity units and placed last, if and only if
\* units > 10: 10 rows when units <= 10, 11 rows when units > 10.
C12_TableShape ==
    (Settled /\ MarginPositive) =>
        /\ Len(tableData) = IF Gt(formData.units, Num(10)) THEN 11 ELSE 10
        /\ \A i \in 1..10 : tableData[i].cantidad = Num(i)
        /\ Gt(formData.units, Num(10)) => tableData[11].cantidad = formData.units

\* units = 15: rows 1..10 and then the row for 15.
C12_Witness ==
    /\ Settled
    /\ MarginPositive
    /\ formData.units = Num(15)
    /\ Len(tableData) = 11
    /\ tableData[11].cantidad = Num(15)

\* units is an integer from 1 to 10.
UnitsSmallInteger ==
    /\ formData.units.d = 1
    /\ formData.units.n >= 1
    /\ formData.units.n <= 10

\* C13 as stated: an integer units value of at most 10 gives exactly units
\* rows, quantities 1..units and no row above units (units = 5 gives exactly
\* 5 rows); units = 15 gives 11 rows (1..10 plus 15).
C13_RowsUpToUnits ==
    /\ (Settled /\ MarginPositive /\ UnitsSmallInteger) =>
          /\ Len(tableData) = formData.units.n
          /\ \A i \in 1..Len(tableData) : Le(tableData[i].cantidad, formData.units)
    /\ (Settled /\ MarginPositive /\ formData.units = Num(15)) =>
          Len(tableData) = 11

\* C13 amended: an integer units value of at most 10 gives exactly ten rows,
\* quantities 1..10, whatever units is (units = 5 gives 10 rows, with rows for
\* 6..10); units = 15 gives 11 rows (1..10 plus 15).
C13_TenRowsAlways ==
    /\ (Settled /\ MarginPositive
          /\ formData.units.d = 1 /\ formData.units.n <= 10) =>
          /\ Len(tableData) = 10
          /\ \A i \in 1..10 : tableData[i].cantidad.n = i /\ tableData[i].cantidad.d = 1
    /\ (Settled /\ MarginPositive /\ formData.units = Num(15)) =>
          /\ Len(tableData) = 11
          /\ [i \in 1..11 |-> tableData[i].cantidad.n]
                = <<1, 2, 3, 4, 5, 6, 7, 8, 9, 10, 15>>

\* units = 5: ten rows, the sixth one for quantity 6.
C13_Witness ==
    /\ Settled
    /\ MarginPositive
    /\ formData.units = Num(5)
    /\ Len(tableData) = 10
    /\ tableData[6].cantidad = Num(6)

\* The four adjusted values of the current state, each with one division.
AdjPrice == AdjustedOnce(formData.sellingPricePerUnit, sensitivityChanges.priceChange)
AdjVariableCost ==
    AdjustedOnce(formData.variableCostPerUnit, sensitivityChanges.variableCostChange)
AdjFixedCost == AdjustedOnce(formData.fixedCost, sensitivityChanges.fixedCostChange)
AdjTaxRate == AdjustedOnce(formData.taxRate, sensitivityChanges.taxRateChange)

\* x * (100 - rate) / 100
NetOf(x, rate) == Div(Mul(x, Sub(Num(100), rate)), Num(100))

\* C14: every table row with quantity q shows the adjusted economics:
\* costoFijoTotal = adjustedFixedCost, costoVariableTotal =
\* q * adjustedVariableCost, costoTotal their sum, ingresoTotal =
\* q * adjustedSellingPrice, gananciaOPerdida = ingresoTotal - costoTotal and
\* utilidadNeta = gananciaOPerdida * (1 - adjustedTaxRate / 100); the appended
\* row for q = units agrees with the headline results.
C14_RowsUseAdjusted ==
    (Settled /\ MarginPositive) =>
        LET price == AdjPrice
            variableCost == AdjVariableCost
            fixedCost == AdjFixedCost
            taxRate == AdjTaxRate
        IN  /\ \A i \in 1..Len(tableData) :
                  LET row == tableData[i]
                      q == row.cantidad
                  IN  /\ row.costoFijoTotal = fixedCost
                      /\ row.costoVariableTotal = Mul(q, variableCost)
                      /\ row.costoTotal = Add(fixedCost, row.costoVariableTotal)
                      /\ row.ingresoTotal = Mul(q, price)
                      /\ row.gananciaOPerdida = Sub(row.ingresoTotal, row.costoTotal)
                      /\ row.utilidadNeta = NetOf(row.gananciaOPerdida, taxRate)
            /\ Len(tableData) = 11 =>
                  LET last == tableData[11]
                  IN  /\ last.cantidad = formData.units
                      /\ last.costoTotal = results.totalCost
                      /\ last.ingresoTotal = results.totalRevenue
                      /\ last.gananciaOPerdida = results.profitBeforeTax
                      /\ last.utilidadNeta = results.netProfit

\* A table with the appended row, computed with a slider off zero.
C14_Witness ==
    /\ Settled
    /\ MarginPositive
    /\ sensitivityChanges # InitialSensitivity
    /\ Len(tableData) = 11
    /\ tableData[11].costoTotal = results.totalCost
    /\ tableData[1].costoFijoTotal # formData.fixedCost

\* The chart range, step and grid quantities, written with integer
\* arithmetic: the least integer not below max(units, breakEvenUnits) * 1.2,
\* a twentieth of it rounded down but at least 1, and the multiples of the
\* step from 0 up to the range.
RangeInt(units, breakEvenUnits) ==
    LET m == IF Gt(breakEvenUnits, units) THEN breakEvenUnits ELSE units
        x == Div(Mul(m, Num(6)), Num(5))
    IN  -((-x.n) \div x.d)
StepInt(range) == IF range \div 20 > 1 THEN range \div 20 ELSE 1
GridInts(range, step) ==
    IF range < 0 THEN {} ELSE {k * step : k \in 0..(range \div step)}
Quantities(points) == {points[i].cantidad : i \in 1..Len(points)}

\* 2 * |x - k| < step, for a quantity x and an integer k
WithinHalfStep(x, k, step) ==
    LET diff == x.n - k * x.d
    IN  2 * (IF diff < 0 THEN -diff ELSE diff) < step * x.d

\* units > 0 and fixedCost >= 0
ValidChartParameters ==
    /\ Gt(formData.units, Zero)
    /\ Ge(AdjustedOnce(formData.fixedCost, sensitivityChanges.fixedCostChange), Zero)

\* C15: the evenly spaced part of every generated chart is exactly the
\* quantities 0, step, 2*step, ... not exceeding chartRange, where
\* chartRange = ceil(max(units, breakEvenUnits) * 1.2) and
\* step = max(1, floor(chartRange / 20)); any other point is a forced one, at
\* breakEvenUnits or at units; for valid parameters (units > 0,
\* fixedCost >= 0) every chart point has a quantity in [0, chartRange].
C15_ChartGrid ==
    (Settled /\ MarginPositive) =>
        LET range == RangeInt(formData.units, results.breakEvenUnits)
            step == StepInt(range)
            grid == {Num(k) : k \in GridInts(range, step)}
            shown == Quantities(chartData)
        IN  /\ grid \subseteq shown
            /\ shown \subseteq (grid \cup {results.breakEvenUnits, formData.units})
            /\ ValidChartParameters =>
                  \A q \in shown : Ge(q, Zero) /\ Le(q, Num(range))

\* Valid parameters, a grid with a step above 1 and a forced point between
\* two grid points.
C15_Witness ==
    /\ Settled
    /\ MarginPositive
    /\ ValidChartParameters
    /\ LET range == RangeInt(formData.units, results.breakEvenUnits)
           step == StepInt(range)
       IN  /\ step > 1
           /\ Num(step) \in Quantities(chartData)
           /\ \E i \in 1..Len(chartData) :
                 /\ Gt(chartData[i].cantidad, Zero)
                 /\ Lt(chartData[i].cantidad, Num(step))

\* Whether the effect had to force a point at breakEvenUnits, and at units.
BreakEvenForced(grid, step) ==
    \A k \in grid : ~WithinHalfStep(results.breakEvenUnits, k, step)
UnitsForced(grid, step) ==
    /\ \A k \in grid : ~WithinHalfStep(formData.units, k, step)
    /\ ~ /\ BreakEvenForced(grid, step)
         /\ Lt(Abs(Sub(results.breakEvenUnits, formData.units)), R(step, 2))

C17_ProfitFormulas ==
    /\ (Settled /\ MarginPositive) =>
          /\ results.profitBeforeTax = Sub(results.totalRevenue, results.totalCost)
          /\ results.netProfit = NetOf(results.profitBeforeTax, AdjTaxRate)
          /\ AdjTaxRate = Zero => results.netProfit = results.profitBeforeTax
    /\ (Settled /\ formData = InitialFormData
              /\ sensitivityChanges = InitialSensitivity) =>
          results = [breakEvenUnits |-> Num(1000),
                     breakEvenRevenue |-> Num(25000),
                     totalRevenue |-> Num(2500),
                     totalCost |-> Num(11500),
                     profitBeforeTax |-> Num(-9000),
                     netProfit |-> Num(-6300)]
    /\ (page = "Index" /\ rendered.results # NULL) =>
          rendered.results.profitOrLoss
              = Sub(rendered.results.salesRevenue, rendered.results.totalCost)

\* A zero tax rate typed into the form: net profit equals the non-zero
\* pre-tax profit.
C17_Witness ==
    /\ Settled
    /\ MarginPositive
    /\ formData.taxRate = Zero
    /\ results.profitBeforeTax # Zero
    /\ results.netProfit = results.profitBeforeTax

\* C18: for a base taxRate in [0, 100] and any taxRateChange in [-50, 50]
\* the adjustedTaxRate stays in [0, 100], so the net profit never has the
\* opposite sign to the pre-tax profit nor a larger absolute value.
C18_TaxRateInRange ==
    (page = "AnalysisDashboard"
        /\ Ge(formData.taxRate, Zero) /\ Le(formData.taxRate, Num(100))
        /\ sensitivityChanges.taxRateChange \in -50..50) =>
        /\ Ge(Current.adjustedTaxRate, Zero)
        /\ Le(Current.adjustedTaxRate, Num(100))
        /\ (Settled /\ MarginPositive) =>
              /\ SignOf(results.netProfit) * SignOf(results.profitBeforeTax) >= 0
              /\ Le(Abs(results.netProfit), Abs(results.profitBeforeTax))

\* The number a handler must store for a text: the parsed value, 0 when the
\* text does not parse.
ParsedOrZero(text) ==
    LET v == parseFloat(text) IN IF IsNaN(v) THEN Zero ELSE v

\* C19: malformed text never propagates a parse failure: no field of formData
\* or data is ever NaN, and every edit, by AnalysisDashboard.handleInputChange
\* or through InputField.handleChange, changes only the edited field and
\* stores there the parsed number, 0 when the text does not parse.
C19_ParseFallback ==
    /\ [](/\ \A f \in FormFields : ~IsNaN(formData[f])
          /\ \A f \in IndexFields : ~IsNaN(data[f]))
    /\ [][(page = "AnalysisDashboard" /\ formData' # formData) =>
             \/ formData' = InitialFormData
             \/ \E f \in FormFields : \E text \in FormTexts(f) :
                   formData' = [formData EXCEPT
                                   ![f] = ParsedOrZero(Slice0(text, 12))]]_vars
    /\ [][(page = "Index" /\ data' # data) =>
             \E f \in IndexFields : \E text \in InputTexts :
                 data' = [data EXCEPT ![f] = ParsedOrZero(text)]]_vars

\* Unparsable text typed into the dashboard's fixedCost field: the field
\* holds 0, the other fields are untouched and the effect has computed a
\* break-even quantity of 0 from it.
C19_Witness ==
    /\ Settled
    /\ formData = [InitialFormData EXCEPT !.fixedCost = Zero]
    /\ results.breakEvenUnits = Zero
    /\ IsFinite(results.netProfit)

\* C20: handleReset, from any reachable state, sets formData to its defaults
\* and all four adjustments to 0 and schedules the effect; once the effect
\* has run, results, tableData and chartData are those of the initial state
\* after its first effect run (break-even 1000 units, 11 table rows, 21 chart
\* points).
C20_ResetRestores ==
    /\ [][handleReset =>
             /\ formData' = InitialFormData
             /\ sensitivityChanges' = InitialSensitivity
             /\ effectPending']_vars
    /\ [](( /\ Settled
            /\ formData = InitialFormData
            /\ sensitivityChanges = InitialSensitivity) =>
             /\ results.breakEvenUnits = Num(1000)
             /\ results.netProfit = Num(-6300)
             /\ [i \in 1..Len(tableData) |-> tableData[i].cantidad.n]
                   = <<1, 2, 3, 4, 5, 6, 7, 8, 9, 10, 100>>
             /\ [i \in 1..Len(chartData) |-> chartData[i].cantidad.n]
                   = [i \in 1..21 |-> 60 * (i - 1)]
             /\ <<results, tableData, chartData>>
                   = LET out == EffectOutput(InitialFormData, InitialSensitivity)
                     IN  <<out.results, out.tableData, out.chartData>>)

\* The defaults restored after the form and a slider had been changed, and
\* the effect run again.
C20_Witness ==
    /\ Settled
    /\ events = MaxEvents
    /\ formData = InitialFormData
    /\ sensitivityChanges = InitialSensitivity
    /\ Len(tableData) = 11
    /\ Len(chartData) = 21

\* The chart points that the grid loop produced: those at a multiple of the
\* step from 0 up to the range.
GridPointIndexes(range, step) ==
    {i \in 1..Len(chartData) :
        LET q == chartData[i].cantidad
        IN  /\ Ge(q, Zero)
            /\ Le(q, range)
            /\ MathFloor(Div(q, step)) = Div(q, step)}

\* C21: for every finite form state with a positive adjusted margin the
\* grid loop of the effect terminates: the chart range is finite and the step
\* is at least 1; once the effect has run, the chart has at most 40 evenly
\* spaced points and at most 42 points, and when units > 0 and
\* fixedCost >= 0 the largest evenly spaced quantity is at least
\* max(units, breakEvenUnits).
C21_GridLoopTerminates ==
    (page = "AnalysisDashboard" /\ AllFinite(formData) /\ MarginPositive) =>
        LET range == chartRange(formData.units,
                                MainResults(formData, Current).breakEvenUnits)
            step == chartStep(range)
            gridIndexes == GridPointIndexes(range, step)
        IN  /\ chartLoopEnds(formData, sensitivityChanges)
            /\ IsFinite(range)
            /\ Ge(step, Num(1))
            /\ Settled =>
                  /\ Cardinality(gridIndexes) <= 40
                  /\ Len(chartData) <= 42
                  /\ ValidChartParameters =>
                        \E i \in gridIndexes :
                            /\ Ge(chartData[i].cantidad, formData.units)
                            /\ Ge(chartData[i].cantidad, results.breakEvenUnits)

\* Index shows the ResultsTable.
TableShown == page = "Index" /\ rendered.section = "ResultsTable"

\* C22: ResultsTable is rendered only with results whose salesRevenue > 0
\* and with units > 0, so the profit margin profitOrLoss / salesRevenue is
\* never a division by zero, after every sequence of input changes in Index.
C22_MarginDivisionDefined ==
    TableShown =>
        /\ Gt(data.units, Zero)
        /\ Gt(rendered.results.salesRevenue, Zero)
        /\ ~IsNaN(rendered.table.profitMargin)

\* C23: the break-even badge and the profit/loss card of ResultsTable agree:
\* the badge reads "Por encima del punto de equilibrio" exactly when the card
\* reads "Ganancia", for every accepted input, units equal to breakEvenUnits
\* included.
C23_BadgeMatchesCard ==
    TableShown =>
        (rendered.table.badge = "Por encima del punto de equilibrio"
            <=> rendered.table.card = "Ganancia")

====
